---- MODULE Spec2Model ----
(***************************************************************************)
(* Daily Diet Scan: the daily ledger kept by FoodForm.handleSubmit         *)
(* (recordEntry), DailyDashboard.deleteFoodEntry (deleteEntry) and         *)
(* DailyDashboard.loadTodayData (loadDay) against the Supabase tables      *)
(* daily_logs, food_entries and foods.                                     *)
(*                                                                         *)
(* Every request to the store is one step: the store evaluates it and the  *)
(* handler runs on to its next request.  getSession is answered from the   *)
(* client's own session and is part of the step that calls it.  Two        *)
(* browser clients of the same user share the store; each has its own      *)
(* dashboard state.  Quantities are counted in tenths of a serving.        *)
(***************************************************************************)
EXTENDS Integers, FiniteSets, Sequences, TLC

\* ---- bounds of the model ----
MaxSubmits == 3      \* submissions that pass the form, over all clients
MaxFaultSubmits == 2 \* submissions in the runs where requests fail
MaxFailures == 1     \* store calls that fail
MaxDay == 2          \* calendar days that pass
MaxInFlight == 2     \* handlers (submit, delete, load) running at one time
MaxScans == 2        \* recognize calls of one client

\* ---- program constants ----
QuantityMin == 1     \* <Input min="0.1">, in tenths of a serving
QuantityDefault == 10 \* useState(1) and parseFloat(...) || 1, in tenths
NutritionMin == 0    \* <Input min="0"> of the four nutrition fields

Clients == {"c1", "c2"}
User == "u1"

Fields == {"calories", "protein", "carbs", "fat"}
ZeroNutrition == [calories |-> 0, protein |-> 0, carbs |-> 0, fat |-> 0]

\* ---- what the user types into the form before pressing submit ----
Oat == <<"o", "a", "t">>
ServingA == [calories |-> 100, protein |-> 3, carbs |-> 2, fat |-> 1]
ServingB == [calories |-> 50, protein |-> 0, carbs |-> 4, fat |-> 2]
ServingNeg == [calories |-> 100, protein |-> -3, carbs |-> 2, fat |-> 1]
Typed(n, b, q, v) == [name |-> n, brand |-> b, quantity |-> q, nutrition |-> v]
TypedForms ==
  { Typed(Oat, "", 10, ServingA),
    Typed(Oat, "", 20, ServingB),
    Typed(Oat, "", 0, ServingA),
    Typed(<<>>, "", 10, ServingA),
    Typed(<<" ">>, "", 10, ServingA),
    Typed(Oat, "acme", -10, ServingA),
    Typed(Oat, "", 10, ServingNeg) }

\* String.prototype.trim on a sequence of characters
RECURSIVE TrimLeft(_)
TrimLeft(s) ==
  IF s # <<>> /\ Head(s) = " " THEN TrimLeft(Tail(s)) ELSE s
RECURSIVE TrimRight(_)
TrimRight(s) ==
  IF s # <<>> /\ s[Len(s)] = " " THEN TrimRight(SubSeq(s, 1, Len(s) - 1)) ELSE s
Trim(s) == TrimRight(TrimLeft(s))

\* onChange of the quantity input: parseFloat(e.target.value) || 1
SetQuantity(typed) == IF typed = 0 THEN QuantityDefault ELSE typed

\* (the per-serving values, not multiplied by the quantity)
AdjustedNutritionUnscaled(nutrition, quantity) == nutrition

\* adjustedNutrition: each field times quantity (quantity in tenths)
AdjustedNutrition(nutrition, quantity) ==
  [f \in Fields |-> (nutrition[f] * quantity) \div 10]

\* brand || null
BrandOrNull(brand) == IF brand = "" THEN "null" ELSE brand

Max(a, b) == IF a >= b THEN a ELSE b

VARIABLES
  today,          \* new Date().toISOString().split('T')[0], as a day number
  daily_logs,     \* table daily_logs: set of rows
  food_entries,   \* table food_entries: set of rows
  foods,          \* table foods: set of rows
  nextLogId,      \* the store's id generator for daily_logs
  nextEntryId,    \* the store's id generator for food_entries
  session,        \* session[c]: supabase.auth.getSession() has a session
  dailyLog,       \* dashboard state dailyLog of each client
  foodEntries,    \* dashboard state foodEntries of each client
  reloadPending,  \* a loadTodayData() call that has been made and not yet begun
  load,           \* the running loadTodayData of each client
  del,            \* the running deleteFoodEntry of each client
  sub,            \* the form of each client and its running handleSubmit
  isSubmitting,   \* form state isSubmitting
  toast,          \* the toast() call of the step just taken ("none": none)
  submits,        \* number of submissions that passed the form
  failures,       \* number of store calls that failed
  scanner         \* the scanner of each client and what it handed to the dashboard

vars == <<today, daily_logs, food_entries, foods, nextLogId, nextEntryId,
          session, dailyLog, foodEntries, reloadPending, load, del, sub,
          isSubmitting, toast, submits, failures, scanner>>

store == <<daily_logs, food_entries, foods, nextLogId, nextEntryId>>

\* dashboard state before the first load: useState<DailyLog | null>(null)
NullLog == [id |-> 0, date |-> 0, totals |-> ZeroNutrition, null |-> TRUE]
\* the zeroed aggregate loadTodayData puts in memory when no row is found
SynthLog == [id |-> 0, date |-> 0, totals |-> ZeroNutrition, null |-> FALSE]
\* a daily_logs row as the client holds it (totals: the four total_ columns)
LogData(row) == [id |-> row.id, date |-> row.date, totals |-> row.totals, null |-> FALSE]

\* dashboard state scannedNutrition before any scan: useState(null)
NoScan == [null |-> TRUE]

\* a number: num / den, den a power of ten and as small as the value allows
Zero == [num |-> 0, den |-> 1]

\* the nutrition state of a form mounted without initialNutrition
\* (FoodForm.tsx line 26)
ZeroRecord == [n \in {"calories", "protein", "carbs", "fat"} |-> Zero]

\* the scanner as mounted, nothing recognised yet, and the form not shown.
\* showScanner, showManualForm and scannedNutrition are the dashboard's;
\* mountedNutrition is the value the form's nutrition state was given when
\* the form was mounted; isProcessing and extractedText are the scanner
\* component's; pc, text, nutrition, outcome, detached and calls describe the
\* processImage call: where it stands, the text and the record of the last
\* call that got an answer, what the last recognize call gave, whether the
\* component that made the call was unmounted before the answer, and the
\* number of recognize calls made
IdleScanner ==
  [showScanner |-> FALSE, showManualForm |-> FALSE, scannedNutrition |-> NoScan,
   mountedNutrition |-> ZeroRecord, isProcessing |-> FALSE,
   extractedText |-> <<>>, pc |-> "idle", text |-> <<>>, nutrition |-> NoScan,
   outcome |-> "none", detached |-> FALSE, calls |-> 0]

\* useState(initialNutrition || zeros) with initialNutrition = scannedNutrition
\* || undefined (FoodForm.tsx lines 25-27, DailyDashboard.tsx line 235)
MountedWith(scanned) == IF scanned = NoScan THEN ZeroRecord ELSE scanned

\* showManualForm becomes true: a form that was not on screen is mounted, a
\* form already on screen keeps its state
FormShown(s) ==
  [s EXCEPT !.showManualForm = TRUE,
            !.mountedNutrition = IF s.showManualForm THEN @
                                 ELSE MountedWith(s.scannedNutrition)]

\* setShowManualForm(false) and setScannedNutrition(null): the form is
\* unmounted and its state is gone
FormHidden(s) ==
  [s EXCEPT !.showManualForm = FALSE, !.scannedNutrition = NoScan,
            !.mountedNutrition = ZeroRecord]

\* handleFoodAdded (DailyDashboard.tsx lines 107-112) but for its
\* loadTodayData(): the form and the scanner are unmounted; a recognition in
\* flight goes on without its component
handleFoodAdded(s) ==
  [FormHidden(s) EXCEPT !.showScanner = FALSE, !.isProcessing = FALSE,
                        !.extractedText = <<>>,
                        !.detached = @ \/ s.pc = "ocr"]

\* the form as mounted: useState(''), useState(''), useState(1), zero nutrition.
\* entryId: the row this call inserted; persisted: the row an earlier call of
\* the same form content inserted before it failed; foundNone: the select found
\* no row; failedAt, shown: the step that failed and the toast it was given
IdleSub ==
  [pc |-> "idle", foodName |-> <<>>, brand |-> "", quantity |-> QuantityDefault,
   nutrition |-> ZeroNutrition, today |-> 0, dailyLog |-> NullLog,
   entryId |-> 0, persisted |-> 0, foundNone |-> FALSE, failedAt |-> "none",
   shown |-> "none"]

IdleLoad == [pc |-> "idle", today |-> 0, logId |-> 0]
NoEntry ==
  [id |-> 0, user_id |-> User, daily_log_id |-> 0, food_name |-> <<>>,
   food_brand |-> "null", quantity |-> 0, calories |-> 0, protein |-> 0,
   carbs |-> 0, fat |-> 0]
\* again: the row of the entry was already gone from the store when the call
\* was issued (an earlier call for the same id had deleted it)
IdleDel ==
  [pc |-> "idle", entry |-> NoEntry, dailyLog |-> NullLog, today |-> 0,
   again |-> FALSE]

\* rows of daily_logs with .eq('user_id', ...).eq('date', d)
LogsOn(d) == {r \in daily_logs : r.user_id = User /\ r.date = d}

\* the store's uniqueness of (user_id, date) in daily_logs: an insert of a
\* second row for the same user and date fails with "already exists"
UniqueViolation(d) == LogsOn(d) # {}

CanFail == failures < MaxFailures

\* handlers that have sent a request to the store and await its answer
InFlight ==
  Cardinality({c \in Clients : sub[c].pc \in {"find", "create", "insert", "update", "upsert"}})
    + Cardinality({c \in Clients : del[c].pc \notin {"idle", "absent"}})
    + Cardinality({c \in Clients : load[c].pc # "idle"})
CanStart == InFlight < MaxInFlight

Init ==
  /\ today = 1
  /\ daily_logs = {}
  /\ food_entries = {}
  /\ foods = {}
  /\ nextLogId = 1
  /\ nextEntryId = 1
  /\ session = [c \in Clients |-> TRUE]
  /\ dailyLog = [c \in Clients |-> NullLog]
  /\ foodEntries = [c \in Clients |-> {}]
  /\ reloadPending = [c \in Clients |-> TRUE]
  /\ load = [c \in Clients |-> IdleLoad]
  /\ del = [c \in Clients |-> IdleDel]
  /\ sub = [c \in Clients |-> IdleSub]
  /\ isSubmitting = [c \in Clients |-> FALSE]
  /\ toast = "none"
  /\ submits = 0
  /\ failures = 0
  /\ scanner = [c \in Clients |-> IdleScanner]

\* ------------------------------------------------------------------------
\* FoodForm: the submit button and the inputs' constraints

\* (a form without constraints on its inputs)
FormAcceptsAnything(c, foodName, quantity, nutrition) == ~isSubmitting[c]

\* <Input required>, <Input min="0.1">, <Input min="0">,
\* <Button disabled={isSubmitting || !foodName.trim()}>
FormAccepts(c, foodName, quantity, nutrition) ==
  /\ ~isSubmitting[c]
  /\ foodName # <<>>
  /\ Trim(foodName) # <<>>
  /\ quantity >= QuantityMin
  /\ \A f \in Fields : nutrition[f] >= NutritionMin

\* the toast of the catch block of handleSubmit, whatever was thrown
FailureToast(step) == "Failed to add food"

\* the catch block of handleSubmit, then finally (lines 145-154); the form
\* keeps its content
SubmitFailed(c, step) ==
  /\ toast' = FailureToast(step)
  /\ isSubmitting' = [isSubmitting EXCEPT ![c] = FALSE]
  /\ sub' = [sub EXCEPT ![c] =
       [@ EXCEPT !.pc = "failed", !.failedAt = step,
                 !.shown = FailureToast(step),
                 !.persisted = IF @ # 0 THEN @ ELSE sub[c].entryId]]

\* (a handleSubmit that does not look at the session)
HandleSubmitAnySession(c, form) ==
  /\ CanStart
  /\ submits < MaxSubmits
  /\ submits' = submits + 1
  /\ toast' = "none"
  /\ isSubmitting' = [isSubmitting EXCEPT ![c] = TRUE]
  /\ sub' = [sub EXCEPT ![c] = [form EXCEPT !.pc = "find", !.today = today]]

\* handleSubmit up to its first request to the store (lines 31-61):
\* setIsSubmitting(true), then getSession(); without a session the answer is
\* awaited (pc "session") and no request follows; otherwise the date is read
\* and the select of today's daily log is sent
HandleSubmit(c, form) ==
  IF ~session[c]
  THEN /\ toast' = "none"
       /\ isSubmitting' = [isSubmitting EXCEPT ![c] = TRUE]
       /\ sub' = [sub EXCEPT ![c] = [form EXCEPT !.pc = "session"]]
       /\ UNCHANGED submits
  ELSE /\ CanStart
       /\ submits < MaxSubmits
       /\ submits' = submits + 1
       /\ toast' = "none"
       /\ isSubmitting' = [isSubmitting EXCEPT ![c] = TRUE]
       /\ sub' = [sub EXCEPT ![c] = [form EXCEPT !.pc = "find", !.today = today]]

\* The user fills the form in (opening it with Add Manually when it is not on
\* screen) and presses submit.  What the form's constraints
\* forbid never reaches handleSubmit: the form stays as typed ("refused", its
\* content is not kept here).  Otherwise handleSubmit starts
FillAndSubmit(c, typed) ==
  /\ sub[c].pc \in {"idle", "refused"}
  /\ IF FormAccepts(c, typed.name, SetQuantity(typed.quantity), typed.nutrition)
     THEN HandleSubmit(c, [IdleSub EXCEPT !.foodName = typed.name,
                                          !.brand = typed.brand,
                                          !.quantity = SetQuantity(typed.quantity),
                                          !.nutrition = typed.nutrition])
     ELSE /\ sub' = [sub EXCEPT ![c] = [IdleSub EXCEPT !.pc = "refused"]]
          /\ toast' = "none"
          /\ UNCHANGED <<submits, isSubmitting>>
  /\ scanner' = [scanner EXCEPT ![c] = FormShown(@)]
  /\ UNCHANGED <<today, store, session, dailyLog, foodEntries, reloadPending,
                 load, del, failures>>

\* The button Add Manually (DailyDashboard.tsx lines 205-213) mounts the form
OpenManualForm(c) ==
  /\ ~scanner[c].showManualForm
  /\ scanner' = [scanner EXCEPT ![c] = FormShown(@)]
  /\ toast' = "none"
  /\ UNCHANGED <<today, store, session, dailyLog, foodEntries, reloadPending,
                 load, del, sub, isSubmitting, submits, failures>>

\* The user types a name into the form on screen and presses submit, leaving
\* the quantity and the nutrition fields as the form was mounted with them.
\* The ledger counts whole units: a form mounted with a fraction is left alone
SubmitUnedited(c, name) ==
  /\ scanner[c].showManualForm
  /\ sub[c].pc = "idle"
  /\ \A f \in Fields : scanner[c].mountedNutrition[f].den = 1
  /\ FillAndSubmit(c, Typed(name, "", QuantityDefault,
                            [f \in Fields |-> scanner[c].mountedNutrition[f].num]))

\* (a return without a session that leaves the submit button disabled)
SubmitNoSessionKeepsBusy(c) ==
  /\ sub[c].pc = "session"
  /\ toast' = "Please sign in to add foods"
  /\ sub' = [sub EXCEPT ![c] =
       [@ EXCEPT !.pc = "failed", !.failedAt = "session",
                 !.shown = "Please sign in to add foods"]]
  /\ UNCHANGED <<today, store, session, scanner, dailyLog, foodEntries, reloadPending,
                 load, del, isSubmitting, submits, failures>>

\* getSession() answered null (lines 36-44): the toast asks to sign in and the
\* call returns through finally; the form keeps its content
SubmitNoSession(c) ==
  /\ sub[c].pc = "session"
  /\ toast' = "Please sign in to add foods"
  /\ isSubmitting' = [isSubmitting EXCEPT ![c] = FALSE]
  /\ sub' = [sub EXCEPT ![c] =
       [@ EXCEPT !.pc = "failed", !.failedAt = "session",
                 !.shown = "Please sign in to add foods"]]
  /\ UNCHANGED <<today, store, session, scanner, dailyLog, foodEntries, reloadPending,
                 load, del, submits, failures>>

\* After a failure the form keeps its content; the user presses submit again
Resubmit(c) ==
  /\ sub[c].pc = "failed"
  /\ FormAccepts(c, sub[c].foodName, sub[c].quantity, sub[c].nutrition)
  /\ HandleSubmit(c, [sub[c] EXCEPT !.today = 0, !.dailyLog = NullLog,
                                    !.entryId = 0, !.foundNone = FALSE,
                                    !.failedAt = "none", !.shown = "none"])
  /\ UNCHANGED <<today, store, session, scanner, dailyLog, foodEntries, reloadPending,
                 load, del, failures>>

\* The dashboard's Cancel button unmounts the form and drops the scanned
\* record (lines 238-247)
CancelForm(c) ==
  /\ \/ sub[c].pc \in {"failed", "refused"}
     \/ sub[c].pc = "idle" /\ scanner[c].showManualForm
  /\ sub' = [sub EXCEPT ![c] = IdleSub]
  /\ scanner' = [scanner EXCEPT ![c] = FormHidden(@)]
  /\ toast' = "none"
  /\ UNCHANGED <<today, store, session, dailyLog, foodEntries, reloadPending,
                 load, del, isSubmitting, submits, failures>>

\* (a find that takes the "no row" branch whatever the select answers)
SubmitFindAlwaysCreates(c) ==
  /\ sub[c].pc = "find"
  /\ sub' = [sub EXCEPT ![c].pc = "create", ![c].foundNone = TRUE]
  /\ toast' = "none"
  /\ UNCHANGED <<today, store, session, scanner, dailyLog, foodEntries, reloadPending,
                 load, del, isSubmitting, submits, failures>>

\* the select ... .single() answers (lines 56-82)
SubmitFind(c) ==
  /\ sub[c].pc = "find"
  /\ IF LogsOn(sub[c].today) = {}
     THEN \* PGRST116: the insert of a zeroed row is sent
          sub' = [sub EXCEPT ![c].pc = "create", ![c].foundNone = TRUE]
     ELSE \E row \in LogsOn(sub[c].today) :
            sub' = [sub EXCEPT ![c].pc = "insert", ![c].dailyLog = LogData(row)]
  /\ toast' = "none"
  /\ UNCHANGED <<today, store, session, scanner, dailyLog, foodEntries, reloadPending,
                 load, del, isSubmitting, submits, failures>>

\* the select fails with another error: throw logError (lines 80-82)
SubmitFindError(c) ==
  /\ sub[c].pc = "find"
  /\ CanFail
  /\ failures' = failures + 1
  /\ SubmitFailed(c, "find")
  /\ UNCHANGED <<today, store, session, scanner, dailyLog, foodEntries, reloadPending,
                 load, del, submits>>

NewLogRow(id, d) ==
  [id |-> id, user_id |-> User, date |-> d, totals |-> ZeroNutrition]

\* the insert of the day's row answers (lines 65-79): the store refuses a second
\* row of the same user and date, and createError is thrown
SubmitCreate(c) ==
  /\ sub[c].pc = "create"
  /\ IF UniqueViolation(sub[c].today)
     THEN /\ SubmitFailed(c, "create")
          /\ UNCHANGED store
     ELSE /\ daily_logs' = daily_logs \cup {NewLogRow(nextLogId, sub[c].today)}
          /\ nextLogId' = nextLogId + 1
          /\ sub' = [sub EXCEPT ![c].pc = "insert",
                                ![c].dailyLog = LogData(NewLogRow(nextLogId, sub[c].today))]
          /\ toast' = "none"
          /\ UNCHANGED <<food_entries, foods, nextEntryId, isSubmitting>>
  /\ UNCHANGED <<today, session, scanner, dailyLog, foodEntries, reloadPending,
                 load, del, submits, failures>>

\* the insert fails for another reason: createError is thrown (line 78)
SubmitCreateError(c) ==
  /\ sub[c].pc = "create"
  /\ CanFail
  /\ failures' = failures + 1
  /\ SubmitFailed(c, "create")
  /\ UNCHANGED <<today, store, session, scanner, dailyLog, foodEntries, reloadPending,
                 load, del, submits>>

\* (an entry linked to the dashboard's aggregate, which may be the zeroed
\* one kept in memory only)
EntryRowOfDashboard(c, id) ==
  [id |-> id, user_id |-> User, daily_log_id |-> dailyLog[c].id,
   food_name |-> sub[c].foodName, food_brand |-> BrandOrNull(sub[c].brand),
   quantity |-> sub[c].quantity,
   calories |-> AdjustedNutrition(sub[c].nutrition, sub[c].quantity).calories,
   protein |-> AdjustedNutrition(sub[c].nutrition, sub[c].quantity).protein,
   carbs |-> AdjustedNutrition(sub[c].nutrition, sub[c].quantity).carbs,
   fat |-> AdjustedNutrition(sub[c].nutrition, sub[c].quantity).fat]

EntryRow(c, id) ==
  [id |-> id, user_id |-> User, daily_log_id |-> sub[c].dailyLog.id,
   food_name |-> sub[c].foodName, food_brand |-> BrandOrNull(sub[c].brand),
   quantity |-> sub[c].quantity,
   calories |-> AdjustedNutrition(sub[c].nutrition, sub[c].quantity).calories,
   protein |-> AdjustedNutrition(sub[c].nutrition, sub[c].quantity).protein,
   carbs |-> AdjustedNutrition(sub[c].nutrition, sub[c].quantity).carbs,
   fat |-> AdjustedNutrition(sub[c].nutrition, sub[c].quantity).fat]

\* the insert into food_entries answers without error (lines 84-99)
SubmitInsert(c) ==
  /\ sub[c].pc = "insert"
  /\ food_entries' = food_entries \cup {EntryRow(c, nextEntryId)}
  /\ nextEntryId' = nextEntryId + 1
  /\ sub' = [sub EXCEPT ![c].pc = "update", ![c].entryId = nextEntryId]
  /\ toast' = "none"
  /\ UNCHANGED <<today, daily_logs, foods, nextLogId, session, scanner, dailyLog,
                 foodEntries, reloadPending, load, del, isSubmitting,
                 submits, failures>>

\* (an insert that fails after the row was written)
SubmitInsertErrorAfterWrite(c) ==
  /\ sub[c].pc = "insert"
  /\ CanFail
  /\ failures' = failures + 1
  /\ food_entries' = food_entries \cup {EntryRow(c, nextEntryId)}
  /\ nextEntryId' = nextEntryId + 1
  /\ SubmitFailed(c, "insert")
  /\ UNCHANGED <<today, daily_logs, foods, nextLogId, session, scanner, dailyLog,
                 foodEntries, reloadPending, load, del, submits>>

\* entryError: thrown (line 99)
SubmitInsertError(c) ==
  /\ sub[c].pc = "insert"
  /\ CanFail
  /\ failures' = failures + 1
  /\ SubmitFailed(c, "insert")
  /\ UNCHANGED <<today, store, session, scanner, dailyLog, foodEntries, reloadPending,
                 load, del, submits>>

\* (totals that count the entry twice)
NewTotalsTwice(c) ==
  [f \in Fields |->
     sub[c].dailyLog.totals[f]
       + 2 * AdjustedNutrition(sub[c].nutrition, sub[c].quantity)[f]]

\* total_x: dailyLog.total_x + adjustedNutrition.x, from the row as it was read
NewTotals(c) ==
  [f \in Fields |->
     sub[c].dailyLog.totals[f] + AdjustedNutrition(sub[c].nutrition, sub[c].quantity)[f]]

\* toast Success, the form's reset, onFoodAdded() and finally (lines 131-154);
\* handleFoodAdded calls loadTodayData() (lines 107-112)
SubmitSucceeded(c) ==
  /\ toast' = "Success!"
  /\ sub' = [sub EXCEPT ![c] = IdleSub]
  /\ isSubmitting' = [isSubmitting EXCEPT ![c] = FALSE]
  /\ reloadPending' = [reloadPending EXCEPT ![c] = TRUE]
  /\ scanner' = [scanner EXCEPT ![c] = handleFoodAdded(@)]

\* the update of daily_logs .eq('id', dailyLog.id) answers without error
\* (lines 101-115)
SubmitUpdate(c) ==
  /\ sub[c].pc = "update"
  /\ daily_logs' =
       {IF r.id = sub[c].dailyLog.id THEN [r EXCEPT !.totals = NewTotals(c)] ELSE r :
          r \in daily_logs}
  /\ IF Trim(sub[c].foodName) # <<>>
     THEN /\ sub' = [sub EXCEPT ![c].pc = "upsert"]
          /\ toast' = "none"
          /\ UNCHANGED <<isSubmitting, reloadPending, scanner>>
     ELSE SubmitSucceeded(c)
  /\ UNCHANGED <<today, food_entries, foods, nextLogId, nextEntryId, session,
                 dailyLog, foodEntries, load, del, submits, failures>>

\* updateError: thrown (line 112); the entry row stays
SubmitUpdateError(c) ==
  /\ sub[c].pc = "update"
  /\ CanFail
  /\ failures' = failures + 1
  /\ SubmitFailed(c, "update")
  /\ UNCHANGED <<today, store, session, scanner, dailyLog, foodEntries, reloadPending,
                 load, del, submits>>

\* (a catalog row holding the values multiplied by the quantity)
FoodRowScaled(c) ==
  LET scaled == AdjustedNutrition(sub[c].nutrition, sub[c].quantity)
  IN [user_id |-> User, name |-> sub[c].foodName, brand |-> BrandOrNull(sub[c].brand),
      calories_per_serving |-> scaled.calories,
      protein_per_serving |-> scaled.protein,
      carbs_per_serving |-> scaled.carbs,
      fat_per_serving |-> scaled.fat]

\* the row of the foods upsert (lines 118-126)
FoodRow(c) ==
  [user_id |-> User, name |-> sub[c].foodName, brand |-> BrandOrNull(sub[c].brand),
   calories_per_serving |-> sub[c].nutrition.calories,
   protein_per_serving |-> sub[c].nutrition.protein,
   carbs_per_serving |-> sub[c].nutrition.carbs,
   fat_per_serving |-> sub[c].nutrition.fat]

\* upsert with onConflict 'user_id,name,brand'
Upsert(table, row) ==
  {r \in table : ~(r.user_id = row.user_id /\ r.name = row.name /\ r.brand = row.brand)}
    \cup {row}

\* the upsert into foods answers (lines 114-129), then the call ends in success
SubmitUpsert(c) ==
  /\ sub[c].pc = "upsert"
  /\ foods' = Upsert(foods, FoodRow(c))
  /\ SubmitSucceeded(c)
  /\ UNCHANGED <<today, daily_logs, food_entries, nextLogId, nextEntryId,
                 session, dailyLog, foodEntries, load, del, submits, failures>>

\* (an upsert failure that is thrown into the catch block)
SubmitUpsertErrorSurfaced(c) ==
  /\ sub[c].pc = "upsert"
  /\ CanFail
  /\ failures' = failures + 1
  /\ SubmitFailed(c, "upsert")
  /\ UNCHANGED <<today, store, session, scanner, dailyLog, foodEntries, reloadPending,
                 load, del, submits>>

\* the upsert fails: its result is not looked at, the call ends in success
SubmitUpsertError(c) ==
  /\ sub[c].pc = "upsert"
  /\ CanFail
  /\ failures' = failures + 1
  /\ SubmitSucceeded(c)
  /\ UNCHANGED <<today, store, session, dailyLog, foodEntries, load, del, submits>>

\* ------------------------------------------------------------------------
\* DailyDashboard.loadTodayData

\* a loadTodayData() call begins (lines 55-68): without a session it returns;
\* otherwise the date is read and the select of the day's row is sent
LoadStart(c) ==
  /\ reloadPending[c]
  /\ load[c].pc = "idle"
  /\ reloadPending' = [reloadPending EXCEPT ![c] = FALSE]
  /\ IF ~session[c]
     THEN UNCHANGED load
     ELSE /\ CanStart
          /\ load' = [load EXCEPT ![c] = [pc |-> "log", today |-> today, logId |-> 0]]
  /\ toast' = "none"
  /\ UNCHANGED <<today, store, session, scanner, dailyLog, foodEntries, del, sub,
                 isSubmitting, submits, failures>>

\* no row (or no data): the zeroed aggregate is kept in memory only (lines 81-90)
LoadNothing(c) ==
  /\ load' = [load EXCEPT ![c] = IdleLoad]
  /\ dailyLog' = [dailyLog EXCEPT ![c] = SynthLog]
  /\ foodEntries' = [foodEntries EXCEPT ![c] = {}]

\* (a load that stores a zeroed row when the day has none)
LoadLogCreatesRow(c) ==
  /\ load[c].pc = "log"
  /\ IF LogsOn(load[c].today) = {}
     THEN /\ daily_logs' = daily_logs \cup {NewLogRow(nextLogId, load[c].today)}
          /\ nextLogId' = nextLogId + 1
          /\ LoadNothing(c)
     ELSE \E row \in LogsOn(load[c].today) :
            /\ dailyLog' = [dailyLog EXCEPT ![c] = LogData(row)]
            /\ load' = [load EXCEPT ![c].pc = "entries", ![c].logId = row.id]
            /\ UNCHANGED <<foodEntries, daily_logs, nextLogId>>
  /\ toast' = "none"
  /\ UNCHANGED <<today, food_entries, foods, nextEntryId, session, scanner,
                 reloadPending, del, sub, isSubmitting, submits, failures>>

\* the select of the day's row answers (lines 63-80)
LoadLog(c) ==
  /\ load[c].pc = "log"
  /\ IF LogsOn(load[c].today) = {}
     THEN LoadNothing(c)
     ELSE \E row \in LogsOn(load[c].today) :
            /\ dailyLog' = [dailyLog EXCEPT ![c] = LogData(row)]
            /\ load' = [load EXCEPT ![c].pc = "entries", ![c].logId = row.id]
            /\ UNCHANGED foodEntries
  /\ toast' = "none"
  /\ UNCHANGED <<today, store, session, scanner, reloadPending, del, sub, isSubmitting,
                 submits, failures>>

\* the select fails: logData is null
LoadLogError(c) ==
  /\ load[c].pc = "log"
  /\ CanFail
  /\ failures' = failures + 1
  /\ LoadNothing(c)
  /\ toast' = "none"
  /\ UNCHANGED <<today, store, session, scanner, reloadPending, del, sub, isSubmitting,
                 submits>>

\* the select of the entries .eq('daily_log_id', logData.id) answers (lines 73-80)
LoadEntries(c) ==
  /\ load[c].pc = "entries"
  /\ foodEntries' = [foodEntries EXCEPT ![c] =
       {e \in food_entries : e.daily_log_id = load[c].logId}]
  /\ load' = [load EXCEPT ![c] = IdleLoad]
  /\ toast' = "none"
  /\ UNCHANGED <<today, store, session, scanner, dailyLog, reloadPending, del, sub,
                 isSubmitting, submits, failures>>

\* the select fails: entriesData || []
LoadEntriesError(c) ==
  /\ load[c].pc = "entries"
  /\ CanFail
  /\ failures' = failures + 1
  /\ foodEntries' = [foodEntries EXCEPT ![c] = {}]
  /\ load' = [load EXCEPT ![c] = IdleLoad]
  /\ toast' = "none"
  /\ UNCHANGED <<today, store, session, scanner, dailyLog, reloadPending, del, sub,
                 isSubmitting, submits>>

\* ------------------------------------------------------------------------
\* DailyDashboard.deleteFoodEntry

\* the click on a listed entry (lines 114-126): the handler of that render
\* holds that render's dailyLog and foodEntries; without a session it returns;
\* otherwise the entry is found in foodEntries and the delete of its row is sent
DeleteStart(c, entry) ==
  /\ del[c].pc \in {"idle", "absent"}
  /\ entry \in foodEntries[c]
  /\ IF ~session[c]
     THEN UNCHANGED del
     ELSE /\ CanStart
          /\ del' = [del EXCEPT ![c] =
               [pc |-> "delete", entry |-> entry, dailyLog |-> dailyLog[c],
                today |-> 0, again |-> entry \notin food_entries]]
  /\ toast' = "none"
  /\ UNCHANGED <<today, store, session, scanner, dailyLog, foodEntries, reloadPending,
                 load, sub, isSubmitting, submits, failures>>

\* (a lookup that reports the missing entry as a failure)
DeleteAbsentReported(c, entryId) ==
  /\ del[c].pc \in {"idle", "absent"}
  /\ session[c]
  /\ \A e \in foodEntries[c] : e.id # entryId
  /\ del' = [del EXCEPT ![c] = [IdleDel EXCEPT !.pc = "absent"]]
  /\ toast' = "Failed to delete entry"
  /\ UNCHANGED <<today, store, session, scanner, dailyLog, foodEntries, reloadPending,
                 load, sub, isSubmitting, submits, failures>>

\* deleteFoodEntry(entryId) for an id the dashboard's list does not hold:
\* foodEntries.find answers undefined and the handler returns (lines 119-120);
\* pc "absent" records that the last call ended there
DeleteAbsent(c, entryId) ==
  /\ del[c].pc \in {"idle", "absent"}
  /\ session[c]
  /\ \A e \in foodEntries[c] : e.id # entryId
  /\ del' = [del EXCEPT ![c] = [IdleDel EXCEPT !.pc = "absent"]]
  /\ toast' = "none"
  /\ UNCHANGED <<today, store, session, scanner, dailyLog, foodEntries, reloadPending,
                 load, sub, isSubmitting, submits, failures>>

\* toast Deleted and loadTodayData() (lines 147-152)
DeleteSucceeded(c) ==
  /\ toast' = "Deleted"
  /\ reloadPending' = [reloadPending EXCEPT ![c] = TRUE]
  /\ del' = [del EXCEPT ![c] = IdleDel]

\* the catch block of deleteFoodEntry (lines 153-160)
DeleteFailed(c) ==
  /\ toast' = "Failed to delete entry"
  /\ del' = [del EXCEPT ![c] = IdleDel]
  /\ UNCHANGED reloadPending

\* the delete .eq('id', entryId) answers without error (lines 122-132)
DeleteRow(c) ==
  /\ del[c].pc = "delete"
  /\ food_entries' = {e \in food_entries : e.id # del[c].entry.id}
  /\ IF ~del[c].dailyLog.null
     THEN /\ del' = [del EXCEPT ![c].pc = "update", ![c].today = today]
          /\ toast' = "none"
          /\ UNCHANGED reloadPending
     ELSE DeleteSucceeded(c)
  /\ UNCHANGED <<today, daily_logs, foods, nextLogId, nextEntryId, session, scanner,
                 dailyLog, foodEntries, load, sub, isSubmitting, submits, failures>>

\* deleteError: thrown (line 128)
DeleteRowError(c) ==
  /\ del[c].pc = "delete"
  /\ CanFail
  /\ failures' = failures + 1
  /\ DeleteFailed(c)
  /\ UNCHANGED <<today, store, session, scanner, dailyLog, foodEntries, load, sub,
                 isSubmitting, submits>>

\* the per-serving column of a foods row for a nutrition field
PerServing(row, f) ==
  CASE f = "calories" -> row.calories_per_serving
    [] f = "protein" -> row.protein_per_serving
    [] f = "carbs" -> row.carbs_per_serving
    [] f = "fat" -> row.fat_per_serving

\* what an entry's value would be if derived again from the catalog item of
\* its name and brand
Rederived(e, f) ==
  LET items == {r \in foods : r.name = e.food_name /\ r.brand = e.food_brand}
  IN IF items = {} THEN e[f]
     ELSE (PerServing(CHOOSE r \in items : TRUE, f) * e.quantity) \div 10

\* (a subtraction of values derived again from the catalog)
ReducedTotalsRederived(c) ==
  [f \in Fields |->
     Max(0, del[c].dailyLog.totals[f] - Rederived(del[c].entry, f))]

\* (the subtraction without Math.max)
ReducedTotalsNoFloor(c) ==
  [f \in Fields |-> del[c].dailyLog.totals[f] - del[c].entry[f]]

\* Math.max(0, dailyLog.total_x - entry.x), from the handler's dailyLog
ReducedTotals(c) ==
  [f \in Fields |-> Max(0, del[c].dailyLog.totals[f] - del[c].entry[f])]

\* the update .eq('user_id', ...).eq('date', today) answers without error
\* (lines 130-152)
DeleteUpdate(c) ==
  /\ del[c].pc = "update"
  /\ daily_logs' =
       {IF r.user_id = User /\ r.date = del[c].today
          THEN [r EXCEPT !.totals = ReducedTotals(c)] ELSE r : r \in daily_logs}
  /\ DeleteSucceeded(c)
  /\ UNCHANGED <<today, food_entries, foods, nextLogId, nextEntryId, session, scanner,
                 dailyLog, foodEntries, load, sub, isSubmitting, submits, failures>>

\* updateError: thrown (line 144)
DeleteUpdateError(c) ==
  /\ del[c].pc = "update"
  /\ CanFail
  /\ failures' = failures + 1
  /\ DeleteFailed(c)
  /\ UNCHANGED <<today, store, session, scanner, dailyLog, foodEntries, load, sub,
                 isSubmitting, submits>>

\* ------------------------------------------------------------------------
\* FoodScanner.extractNutritionFromText.  A text is a sequence of characters
\* (one-character strings)

DigitChars == <<"0", "1", "2", "3", "4", "5", "6", "7", "8", "9">>
UpperCase ==
  <<"A", "B", "C", "D", "E", "F", "G", "H", "I", "J", "K", "L", "M",
    "N", "O", "P", "Q", "R", "S", "T", "U", "V", "W", "X", "Y", "Z">>
LowerCase ==
  <<"a", "b", "c", "d", "e", "f", "g", "h", "i", "j", "k", "l", "m",
    "n", "o", "p", "q", "r", "s", "t", "u", "v", "w", "x", "y", "z">>
Range(seq) == {seq[i] : i \in DOMAIN seq}
Digits == Range(DigitChars)
\* \w and \s of the regular expressions
WordChars == Range(UpperCase) \cup Range(LowerCase) \cup Digits \cup {"_"}
SpaceChars == {" ", "\n", "\t", "\r"}
\* the characters /[^\w\s\.\-:\/\%]/g leaves in place
KeptChars == WordChars \cup SpaceChars \cup {".", "-", ":", "/", "%"}

ToLowerCase(ch) ==
  IF ch \in Range(UpperCase)
  THEN LowerCase[CHOOSE i \in DOMAIN UpperCase : UpperCase[i] = ch]
  ELSE ch

\* .replace(/\s+/g, ' '): every run of whitespace becomes one space
RECURSIVE CollapseSpaces(_)
CollapseSpaces(t) ==
  IF t = <<>> THEN <<>>
  ELSE IF Head(t) \in SpaceChars
       THEN IF Len(t) > 1 /\ t[2] \in SpaceChars
            THEN CollapseSpaces(Tail(t))
            ELSE <<" ">> \o CollapseSpaces(Tail(t))
       ELSE <<Head(t)>> \o CollapseSpaces(Tail(t))

\* cleanText (line 24)
CleanText(text) ==
  LET blanked == [i \in DOMAIN text |->
                    IF text[i] \in KeptChars THEN text[i] ELSE " "]
      collapsed == CollapseSpaces(blanked)
  IN [i \in DOMAIN collapsed |-> ToLowerCase(collapsed[i])]

\* elements of a pattern besides literal characters: \s* and \d+
AnySpace == "\\s*"
SomeDigits == "\\d+"

\* the position after the longest run of characters of a class from p on
RECURSIVE SkipWhile(_, _, _)
SkipWhile(t, p, class) ==
  IF p <= Len(t) /\ t[p] \in class THEN SkipWhile(t, p + 1, class) ELSE p

\* Where a match of the elements pat[i..] that starts at position p of t ends
\* (the position after it), 0 when there is none.  Every \s* and \d+ of
\* the patterns is followed by a character outside its class, so that the
\* longest run is the only one that can match
RECURSIVE MatchFrom(_, _, _, _)
MatchFrom(t, p, pat, i) ==
  IF i > Len(pat) THEN p
  ELSE IF pat[i] = AnySpace
       THEN MatchFrom(t, SkipWhile(t, p, SpaceChars), pat, i + 1)
  ELSE IF pat[i] = SomeDigits
       THEN IF p <= Len(t) /\ t[p] \in Digits
            THEN MatchFrom(t, SkipWhile(t, p, Digits), pat, i + 1)
            ELSE 0
  ELSE IF p <= Len(t) /\ t[p] = pat[i]
       THEN MatchFrom(t, p + 1, pat, i + 1)
       ELSE 0

\* the value of a run of digits t[a..b-1]
RECURSIVE DigitsValue(_, _, _)
DigitsValue(t, a, b) ==
  IF a >= b THEN 0
  ELSE 10 * DigitsValue(t, a, b - 1)
         + (CHOOSE d \in 0..9 : DigitChars[d + 1] = t[b - 1])

RECURSIVE Pow10(_)
Pow10(k) == IF k = 0 THEN 1 ELSE 10 * Pow10(k - 1)

\* the position after the last digit of t[a..b-1] that is not a trailing zero
RECURSIVE DropZeros(_, _, _)
DropZeros(t, a, b) ==
  IF b > a /\ t[b - 1] = "0" THEN DropZeros(t, a, b - 1) ELSE b

\* parseFloat of the captured digits t[a..b-1] and, when c > 0, the
\* fraction digits t[c..d-1]
ParseFloat(t, a, b, c, d) ==
  IF c = 0 THEN [num |-> DigitsValue(t, a, b), den |-> 1]
  ELSE LET e == DropZeros(t, c, d)
       IN [num |-> DigitsValue(t, a, b) * Pow10(e - c) + DigitsValue(t, c, e),
           den |-> Pow10(e - c)]

\* match() answering null; a captured number is never below zero
NoMatch == [num |-> -1, den |-> 1]

\* [\s:]*(\d+(?:\.\d+)?) and, when the pattern has a unit, \s* and the
\* unit, from position p on: the number captured, or NoMatch
MatchValue(t, p, unit) ==
  LET a == SkipWhile(t, p, SpaceChars \cup {":"})
      b == SkipWhile(t, a, Digits)
      fraction == b + 1 <= Len(t) /\ t[b] = "." /\ t[b + 1] \in Digits
      c == IF fraction THEN b + 1 ELSE 0
      d == IF fraction THEN SkipWhile(t, b + 1, Digits) ELSE b
  IN IF b = a THEN NoMatch
     ELSE IF unit # <<>> /\ MatchFrom(t, d, <<AnySpace>> \o unit, 1) = 0 THEN NoMatch
     ELSE ParseFloat(t, a, b, c, d)

\* the alternatives of a group tried in their order at position p: the number
\* of the first one that matches with what follows it
RECURSIVE MatchAt(_, _, _, _, _)
MatchAt(t, p, alts, unit, k) ==
  IF k > Len(alts) THEN NoMatch
  ELSE LET q == MatchFrom(t, p, alts[k], 1)
       IN IF q # 0 /\ MatchValue(t, q, unit) # NoMatch
          THEN MatchValue(t, q, unit)
          ELSE MatchAt(t, p, alts, unit, k + 1)

\* cleanText.match(pattern): the match at the leftmost position that has one
RECURSIVE FirstMatch(_, _, _, _)
FirstMatch(t, p, alts, unit) ==
  IF p > Len(t) + 1 THEN NoMatch
  ELSE IF MatchAt(t, p, alts, unit, 1) # NoMatch
       THEN MatchAt(t, p, alts, unit, 1)
       ELSE FirstMatch(t, p + 1, alts, unit)

\* const patterns (lines 29-45): for each nutrient the alternatives of its
\* group in their order, and the unit that must follow the number.  The
\* second unit of vitaminD is made of characters that cleanText has replaced
\* by spaces, so it matches nothing

Nutrients ==
  {"calories", "protein", "carbs", "fat", "saturatedFat", "transFat",
  "cholesterol", "sodium", "fiber", "sugar", "addedSugar", "vitaminD",
  "calcium", "iron", "potassium"}

Required == {"calories", "protein", "carbs", "fat"}

Patterns ==
  "calories" :>
     [alts |-> <<<<"c", "a", "l", "o", "r", "i", "e", "s">>,
               <<"e", "n", "e", "r", "g", "y">>,
               <<"k", "c", "a", "l">>>>,
      unit |-> <<>>]
  @@ "protein" :>
     [alts |-> <<<<"p", "r", "o", "t", "e", "i", "n">>>>,
      unit |-> <<"g">>]
  @@ "carbs" :>
     [alts |-> <<<<"t", "o", "t", "a", "l", AnySpace, "c", "a", "r", "b", "o", "h", "y", "d", "r", "a", "t", "e">>,
               <<"c", "a", "r", "b", "o", "h", "y", "d", "r", "a", "t", "e">>,
               <<"c", "a", "r", "b", "s">>>>,
      unit |-> <<"g">>]
  @@ "fat" :>
     [alts |-> <<<<"t", "o", "t", "a", "l", AnySpace, "f", "a", "t">>,
               <<"t", "o", "t", "a", "l", " ", "f", "a", "t">>,
               <<"f", "a", "t">>>>,
      unit |-> <<"g">>]
  @@ "saturatedFat" :>
     [alts |-> <<<<"s", "a", "t", "u", "r", "a", "t", "e", "d", AnySpace, "f", "a", "t">>,
               <<"s", "a", "t", AnySpace, "f", "a", "t">>>>,
      unit |-> <<"g">>]
  @@ "transFat" :>
     [alts |-> <<<<"t", "r", "a", "n", "s", AnySpace, "f", "a", "t">>,
               <<"t", "r", "a", "n", "s", " ", "f", "a", "t">>>>,
      unit |-> <<"g">>]
  @@ "cholesterol" :>
     [alts |-> <<<<"c", "h", "o", "l", "e", "s", "t", "e", "r", "o", "l">>>>,
      unit |-> <<"m", "g">>]
  @@ "sodium" :>
     [alts |-> <<<<"s", "o", "d", "i", "u", "m">>>>,
      unit |-> <<"m", "g">>]
  @@ "fiber" :>
     [alts |-> <<<<"d", "i", "e", "t", "a", "r", "y", AnySpace, "f", "i", "b", "e", "r">>,
               <<"f", "i", "b", "e", "r">>>>,
      unit |-> <<"g">>]
  @@ "sugar" :>
     [alts |-> <<<<"t", "o", "t", "a", "l", AnySpace, "s", "u", "g", "a", "r", "s">>,
               <<"s", "u", "g", "a", "r", "s">>>>,
      unit |-> <<"g">>]
  @@ "addedSugar" :>
     [alts |-> <<<<"a", "d", "d", "e", "d", AnySpace, "s", "u", "g", "a", "r", "s">>,
               <<"i", "n", "c", "l", "u", "d", "e", "s", AnySpace, SomeDigits, "g", AnySpace, "a", "d", "d", "e", "d", AnySpace, "s", "u", "g", "a", "r", "s">>>>,
      unit |-> <<"g">>]
  @@ "vitaminD" :>
     [alts |-> <<<<"v", "i", "t", "a", "m", "i", "n", AnySpace, "d">>,
               <<"v", "i", "t", AnySpace, "d">>>>,
      unit |-> <<"m", "c", "g">>]
  @@ "calcium" :>
     [alts |-> <<<<"c", "a", "l", "c", "i", "u", "m">>>>,
      unit |-> <<"m", "g">>]
  @@ "iron" :>
     [alts |-> <<<<"i", "r", "o", "n">>>>,
      unit |-> <<"m", "g">>]
  @@ "potassium" :>
     [alts |-> <<<<"p", "o", "t", "a", "s", "s", "i", "u", "m">>>>,
      unit |-> <<"m", "g">>]

\* extractNutritionFromText (lines 22-59): the record starts with the four
\* required fields at zero; a nutrient whose pattern matches gets the number
\* parsed from the match; any other optional field is not in the record
Matched(clean, n) == FirstMatch(clean, 1, Patterns[n].alts, Patterns[n].unit)

extractNutritionFromText(text) ==
  LET clean == CleanText(text)
      found == {n \in Nutrients : /\ Matched(clean, n) # NoMatch
                                  /\ Matched(clean, n).num >= 0}
  IN [n \in Required \cup found |->
        IF n \in found THEN Matched(clean, n) ELSE Zero]

\* the texts the recognition may answer

\* '': the empty string
TextEmpty == <<>>

\* '@#\n~ $': no letter, no digit
TextGarbage == <<"@", "#", "\n", "~", " ", "$">>

\* 'Ingredients: Oats': words, no nutrient
TextNoMention == <<"I", "n", "g", "r", "e", "d", "i", "e", "n", "t", "s", ":",
  " ", "O", "a", "t", "s">>

\* 'Calories 0 Protein 0g Total Fat 0g': nutrients, every value zero
TextZeroValues == <<"C", "a", "l", "o", "r", "i", "e", "s", " ", "0", " ",
  "P", "r", "o", "t", "e", "i", "n", " ", "0", "g", " ", "T", "o", "t", "a",
  "l", " ", "F", "a", "t", " ", "0", "g">>

\* 'Sodium 0mg': an optional nutrient at zero
TextSodiumZero == <<"S", "o", "d", "i", "u", "m", " ", "0", "m", "g">>

\* 'Protein -4g': a sign between the word and the number
TextNegative == <<"P", "r", "o", "t", "e", "i", "n", " ", "-", "4", "g">>

\* 'Protein 3 mg': milligrams where grams are asked
TextWrongUnit == <<"P", "r", "o", "t", "e", "i", "n", " ", "3", " ", "m",
  "g">>

\* 'Calories 250'
TextCalories == <<"C", "a", "l", "o", "r", "i", "e", "s", " ", "2", "5", "0">>

\* 'Energy: 1,200 kcal': a thousands separator
TextThousands == <<"E", "n", "e", "r", "g", "y", ":", " ", "1", ",", "2", "0",
  "0", " ", "k", "c", "a", "l">>

\* 'Protein 12.50g': a decimal fraction
TextFraction == <<"P", "r", "o", "t", "e", "i", "n", " ", "1", "2", ".", "5",
  "0", "g">>

\* 'Sodium 140mg': an optional nutrient only
TextSodium == <<"S", "o", "d", "i", "u", "m", " ", "1", "4", "0", "m", "g">>

\* 'Calories 100\nTotal Fat 1g\nTotal Carbohydrate 2g\nProtein 3g': the four required nutrients
TextLabel == <<"C", "a", "l", "o", "r", "i", "e", "s", " ", "1", "0", "0",
  "\n", "T", "o", "t", "a", "l", " ", "F", "a", "t", " ", "1", "g", "\n", "T",
  "o", "t", "a", "l", " ", "C", "a", "r", "b", "o", "h", "y", "d", "r", "a",
  "t", "e", " ", "2", "g", "\n", "P", "r", "o", "t", "e", "i", "n", " ", "3",
  "g">>

\* 'Total Carbohydrate 30g Carbs 99g'
TextSpecificFirst == <<"T", "o", "t", "a", "l", " ", "C", "a", "r", "b", "o",
  "h", "y", "d", "r", "a", "t", "e", " ", "3", "0", "g", " ", "C", "a", "r",
  "b", "s", " ", "9", "9", "g">>

\* 'Carbs 99g Total Carbohydrate 30g'
TextGenericFirst == <<"C", "a", "r", "b", "s", " ", "9", "9", "g", " ", "T",
  "o", "t", "a", "l", " ", "C", "a", "r", "b", "o", "h", "y", "d", "r", "a",
  "t", "e", " ", "3", "0", "g">>

\* 'Total Fat 5g Saturated Fat 2g'
TextTotalThenSaturated == <<"T", "o", "t", "a", "l", " ", "F", "a", "t", " ",
  "5", "g", " ", "S", "a", "t", "u", "r", "a", "t", "e", "d", " ", "F", "a",
  "t", " ", "2", "g">>

\* 'Saturated Fat 2g Total Fat 5g'
TextSaturatedThenTotal == <<"S", "a", "t", "u", "r", "a", "t", "e", "d", " ",
  "F", "a", "t", " ", "2", "g", " ", "T", "o", "t", "a", "l", " ", "F", "a",
  "t", " ", "5", "g">>

\* 'Trans Fat 1g\nTotal Fat 5g'
TextTransThenTotal == <<"T", "r", "a", "n", "s", " ", "F", "a", "t", " ", "1",
  "g", "\n", "T", "o", "t", "a", "l", " ", "F", "a", "t", " ", "5", "g">>

\* 'Dietary Fiber 4g Total Sugars 6g Added Sugars 5g'
TextSugars == <<"D", "i", "e", "t", "a", "r", "y", " ", "F", "i", "b", "e",
  "r", " ", "4", "g", " ", "T", "o", "t", "a", "l", " ", "S", "u", "g", "a",
  "r", "s", " ", "6", "g", " ", "A", "d", "d", "e", "d", " ", "S", "u", "g",
  "a", "r", "s", " ", "5", "g">>

\* 'Cholesterol 0mg Vitamin D 2mcg Calcium 260mg Iron 8mg Potassium 235mg'
TextMinerals == <<"C", "h", "o", "l", "e", "s", "t", "e", "r", "o", "l", " ",
  "0", "m", "g", " ", "V", "i", "t", "a", "m", "i", "n", " ", "D", " ", "2",
  "m", "c", "g", " ", "C", "a", "l", "c", "i", "u", "m", " ", "2", "6", "0",
  "m", "g", " ", "I", "r", "o", "n", " ", "8", "m", "g", " ", "P", "o", "t",
  "a", "s", "s", "i", "u", "m", " ", "2", "3", "5", "m", "g">>

Texts ==
  {TextEmpty, TextGarbage, TextNoMention, TextZeroValues, TextSodiumZero,
  TextNegative, TextWrongUnit, TextCalories, TextThousands, TextFraction,
  TextSodium, TextLabel, TextSpecificFirst, TextGenericFirst,
  TextTotalThenSaturated, TextSaturatedThenTotal, TextTransThenTotal,
  TextSugars, TextMinerals}

\* extractNutritionFromText(text) (line 77) for each of the texts
Extracted == [text \in Texts |-> extractNutritionFromText(text)]

\* ------------------------------------------------------------------------
\* FoodScanner.processImage and the dashboard's scanner panel

\* Object.values(nutrition).some(value => value > 0) (line 80)
HasNutritionData(nutrition) ==
  \E n \in DOMAIN nutrition : nutrition[n].num > 0

\* the button Scan Nutrition Label (line 198) mounts the scanner
OpenScanner(c) ==
  /\ ~scanner[c].showScanner
  /\ scanner' = [scanner EXCEPT ![c].showScanner = TRUE]
  /\ toast' = "none"
  /\ UNCHANGED <<today, store, session, dailyLog, foodEntries, reloadPending,
                 load, del, sub, isSubmitting, submits, failures>>

\* the scanner panel's Cancel button (lines 221-227) unmounts the scanner: its
\* state is gone; a call it made goes on without it
CloseScanner(c) ==
  /\ scanner[c].showScanner
  /\ scanner' = [scanner EXCEPT ![c] =
       [@ EXCEPT !.showScanner = FALSE, !.isProcessing = FALSE,
                 !.extractedText = <<>>,
                 !.detached = @ \/ scanner[c].pc = "ocr"]]
  /\ toast' = "none"
  /\ UNCHANGED <<today, store, session, dailyLog, foodEntries, reloadPending,
                 load, del, sub, isSubmitting, submits, failures>>

\* handleFileSelect with a file: processImage up to the recognize call
\* (lines 61-72, 107-112).  The buttons are disabled while isProcessing; one
\* recognition is in flight per client
SelectImage(c) ==
  /\ scanner[c].showScanner
  /\ ~scanner[c].isProcessing
  /\ scanner[c].pc = "idle"
  /\ scanner[c].calls < MaxScans
  /\ scanner' = [scanner EXCEPT ![c] =
       [@ EXCEPT !.isProcessing = TRUE, !.pc = "ocr", !.outcome = "none",
                 !.detached = FALSE, !.calls = @ + 1]]
  /\ toast' = "Processing image..."
  /\ UNCHANGED <<today, store, session, dailyLog, foodEntries, reloadPending,
                 load, del, sub, isSubmitting, submits, failures>>

\* handleNutritionExtracted (DailyDashboard lines 101-105): the record is
\* kept, the scanner is unmounted and the form is shown with the record as
\* its initialNutrition; a form already on screen stays as it is
handleNutritionExtracted(s, nutrition) ==
  [FormShown([s EXCEPT !.scannedNutrition = nutrition]) EXCEPT
     !.showScanner = FALSE, !.isProcessing = FALSE, !.extractedText = <<>>]

\* what setExtractedText and the finally block leave in a scanner whose
\* call has ended (lines 75, 102-104): nothing in a component unmounted since
Returned(s, text) ==
  [s EXCEPT !.pc = "idle", !.detached = FALSE,
            !.extractedText = IF s.detached THEN @ ELSE text,
            !.isProcessing = IF s.detached THEN @ ELSE FALSE]

\* (a scanner that forwards whatever was extracted)
OcrAnswersForwardsAll(c, text) ==
  /\ scanner[c].pc = "ocr"
  /\ LET nutrition == Extracted[text]
         s == [Returned(scanner[c], text) EXCEPT
                 !.text = text, !.nutrition = nutrition, !.outcome = "text"]
     IN /\ scanner' = [scanner EXCEPT ![c] = handleNutritionExtracted(s, nutrition)]
        /\ toast' = "Success!"
  /\ UNCHANGED <<today, store, session, dailyLog, foodEntries, reloadPending,
                 load, del, sub, isSubmitting, submits, failures>>

\* recognize answers with a text (lines 74-94)
OcrAnswers(c, text) ==
  /\ scanner[c].pc = "ocr"
  /\ LET nutrition == Extracted[text]
         s == [Returned(scanner[c], text) EXCEPT
                 !.text = text, !.nutrition = nutrition, !.outcome = "text"]
     IN IF HasNutritionData(nutrition)
        THEN /\ scanner' = [scanner EXCEPT ![c] = handleNutritionExtracted(s, nutrition)]
             /\ toast' = "Success!"
        ELSE /\ scanner' = [scanner EXCEPT ![c] = s]
             /\ toast' = "No nutrition data found"
  /\ UNCHANGED <<today, store, session, dailyLog, foodEntries, reloadPending,
                 load, del, sub, isSubmitting, submits, failures>>

\* (a failure after which the recognition is called again)
OcrFailsRetried(c) ==
  /\ scanner[c].pc = "ocr"
  /\ scanner[c].calls < MaxScans
  /\ scanner' = [scanner EXCEPT ![c] =
       [@ EXCEPT !.outcome = "error", !.calls = @ + 1]]
  /\ toast' = "none"
  /\ UNCHANGED <<today, store, session, dailyLog, foodEntries, reloadPending,
                 load, del, sub, isSubmitting, submits, failures>>

\* recognize throws: the catch block and finally (lines 95-104)
OcrFails(c) ==
  /\ scanner[c].pc = "ocr"
  /\ scanner' = [scanner EXCEPT ![c] =
       [Returned(scanner[c], scanner[c].extractedText) EXCEPT !.outcome = "error"]]
  /\ toast' = "Processing failed"
  /\ UNCHANGED <<today, store, session, dailyLog, foodEntries, reloadPending,
                 load, del, sub, isSubmitting, submits, failures>>

\* ------------------------------------------------------------------------
\* the calendar and the session

\* midnight passes
Tick ==
  /\ today < MaxDay
  /\ today' = today + 1
  /\ toast' = "none"
  /\ UNCHANGED <<store, session, scanner, dailyLog, foodEntries, reloadPending, load,
                 del, sub, isSubmitting, submits, failures>>

\* the client's session ends: getSession() answers null from now on
SessionEnds(c) ==
  /\ session[c]
  /\ session' = [session EXCEPT ![c] = FALSE]
  /\ toast' = "none"
  /\ UNCHANGED <<today, store, scanner, dailyLog, foodEntries, reloadPending,
                 load, del, sub, isSubmitting, submits, failures>>

\* ------------------------------------------------------------------------
\* what passes the form's constraints
ValidForms ==
  {t \in TypedForms :
     /\ t.name # <<>> /\ Trim(t.name) # <<>>
     /\ SetQuantity(t.quantity) >= QuantityMin
     /\ \A f \in Fields : t.nutrition[f] >= NutritionMin}

\* the steps of the three handlers when every request to the store is answered
Calls(c) ==
  \/ SubmitFind(c)
  \/ SubmitCreate(c)
  \/ SubmitInsert(c)
  \/ SubmitUpdate(c)
  \/ SubmitUpsert(c)
  \/ LoadStart(c)
  \/ LoadLog(c)
  \/ LoadEntries(c)
  \/ \E e \in foodEntries[c] : DeleteStart(c, e)
  \/ DeleteRow(c)
  \/ DeleteUpdate(c)

\* the steps in which a request to the store fails
Faults(c) ==
  \/ SubmitFindError(c)
  \/ SubmitCreateError(c)
  \/ SubmitInsertError(c)
  \/ SubmitUpdateError(c)
  \/ SubmitUpsertError(c)
  \/ LoadLogError(c)
  \/ LoadEntriesError(c)
  \/ DeleteRowError(c)
  \/ DeleteUpdateError(c)

\* the second client only records foods: the steps of its form
Adds(c) ==
  \/ \E typed \in ValidForms : FillAndSubmit(c, typed)
  \/ SubmitFind(c)
  \/ SubmitCreate(c)
  \/ SubmitInsert(c)
  \/ SubmitUpdate(c)
  \/ SubmitUpsert(c)

\* no handleSubmit and no deleteFoodEntry of the client awaits the store
NoneInFlight(c) ==
  /\ sub[c].pc \notin {"find", "create", "insert", "update", "upsert"}
  /\ del[c].pc \in {"idle", "absent"}

\* two clients of one user on one calendar day, the store answering every
\* request: the dashboard and the form of the first, the form of the second
Next ==
  \/ \E typed \in ValidForms : FillAndSubmit("c1", typed)
  \/ Calls("c1")
  \/ Adds("c2")

Spec == Init /\ [][Next]_vars

\* one client, whatever is typed into the form, and requests that fail
NextFaults ==
  \/ submits < MaxFaultSubmits /\ \E typed \in TypedForms : FillAndSubmit("c1", typed)
  \/ submits < MaxFaultSubmits /\ Resubmit("c1")
  \/ CancelForm("c1")
  \/ Calls("c1")
  \/ Faults("c1")

SpecFaults == Init /\ [][NextFaults]_vars

\* one client whose records and deletes run one after another, each started
\* when the one before has returned; the reloads they start run on their own
NextSeq ==
  \/ NoneInFlight("c1") /\ \E typed \in ValidForms : FillAndSubmit("c1", typed)
  \/ NoneInFlight("c1") /\ \E e \in foodEntries["c1"] : DeleteStart("c1", e)
  \/ NoneInFlight("c1") /\ \E id \in 1..MaxSubmits : DeleteAbsent("c1", id)
  \/ SubmitFind("c1")
  \/ SubmitCreate("c1")
  \/ SubmitInsert("c1")
  \/ SubmitUpdate("c1")
  \/ SubmitUpsert("c1")
  \/ LoadStart("c1")
  \/ LoadLog("c1")
  \/ LoadEntries("c1")
  \/ DeleteRow("c1")
  \/ DeleteUpdate("c1")

SpecSeq == Init /\ [][NextSeq]_vars

\* the same client while calendar days pass: midnight may fall between any
\* two steps
NextDay ==
  \/ NextSeq
  \/ Tick

SpecDay == Init /\ [][NextDay]_vars

\* one client's scanner and form: the panels are opened and closed, images are
\* recognised, and the form is submitted with a name typed in and nothing else
\* edited
NextForm ==
  \/ OpenScanner("c1")
  \/ CloseScanner("c1")
  \/ SelectImage("c1")
  \/ \E text \in Texts : OcrAnswers("c1", text)
  \/ OcrFails("c1")
  \/ OpenManualForm("c1")
  \/ CancelForm("c1")
  \/ SubmitUnedited("c1", Oat)
  \/ SubmitFind("c1")
  \/ SubmitCreate("c1")
  \/ SubmitInsert("c1")
  \/ SubmitUpdate("c1")
  \/ SubmitUpsert("c1")

SpecForm == Init /\ [][NextForm]_vars

\* one client's scanner: images are selected, the recognition answers one of
\* the texts or fails, the panels are opened and closed
NextScan ==
  \/ OpenScanner("c1")
  \/ CloseScanner("c1")
  \/ SelectImage("c1")
  \/ \E text \in Texts : OcrAnswers("c1", text)
  \/ OcrFails("c1")
  \/ CancelForm("c1")

SpecScan == Init /\ [][NextScan]_vars

\* ------------------------------------------------------------------------
\* the ledger: totals against the entries that are live

RECURSIVE SumOf(_, _)
SumOf(S, f) ==
  IF S = {} THEN 0
  ELSE LET e == CHOOSE x \in S : TRUE IN e[f] + SumOf(S \ {e}, f)

\* the live entries linked to a daily_logs row
EntriesOf(row) == {e \in food_entries : e.daily_log_id = row.id}

\* each total of each row is the sum of that field over the row's live entries
Conserved ==
  \A r \in daily_logs : \A f \in Fields : r.totals[f] = SumOf(EntriesOf(r), f)

\* the entry row the running handleSubmit of c has inserted
OwnEntry(c) == {e \in food_entries : e.id = sub[c].entryId}

\* ------------------------------------------------------------------------
\* C1 (as stated): records and deletes issued one after another keep the
\* ledger conserved.  A record whose update is answered on a ledger that was
\* conserved before its entry was inserted, and a delete of a live entry whose
\* update is answered on a ledger that was conserved when the row was removed,
\* each leave every total equal to the sum over the live entries.
C1_LedgerConservation ==
  [][\A c \in Clients :
       /\ ( /\ sub[c].pc = "update"
            /\ sub'[c].pc # "update"
            /\ \A r \in daily_logs : \A f \in Fields :
                 r.totals[f] = SumOf(EntriesOf(r) \ OwnEntry(c), f) )
          => Conserved'
       /\ ( /\ del[c].pc = "update"
            /\ del'[c].pc = "idle"
            /\ ~del[c].again
            /\ \A r \in daily_logs : \A f \in Fields :
                 r.totals[f] = SumOf(EntriesOf(r), f)
                   + (IF r.id = del[c].entry.daily_log_id THEN del[c].entry[f] ELSE 0) )
          => Conserved'
    ]_vars

\* C2: every total of every daily_logs row is at least zero in every state.
C2_TotalsNeverNegative ==
  \A r \in daily_logs : \A f \in Fields : r.totals[f] >= 0

\* a delete whose update is about to be answered holds totals smaller than the
\* entry's values: the floor is what keeps the row at zero
C2_Witness ==
  \E c \in Clients :
    /\ del[c].pc = "update"
    /\ \E f \in Fields : del[c].dailyLog.totals[f] < del[c].entry[f]
    /\ LogsOn(del[c].today) # {}

\* C3 (as stated): a second deleteFoodEntry for an id whose row an earlier
\* call has deleted changes no daily_logs row and no food_entries row, and
\* leaves no total negative, whenever it is issued.
C3_SecondDeleteIsNoOp ==
  [][\A c \in Clients :
       (del[c].again /\ del'[c] # del[c])
         => /\ daily_logs' = daily_logs
            /\ food_entries' = food_entries
            /\ \A r \in daily_logs' : \A f \in Fields : r.totals[f] >= 0
    ]_vars

\* C4 (as stated): when both clients' calls have found no row for the day,
\* neither call fails and the day has at most one row.
C4_RaceLoserSucceeds ==
  (\A c \in Clients : sub[c].foundNone)
    => /\ \A c \in Clients : sub[c].pc # "failed"
       /\ Cardinality(LogsOn(today)) <= 1

\* C5: when handleSubmit calls follow one another, none fails, a call sends
\* the insert of the day's row only when the day has no row, every call past
\* its find holds the one row of its date, and no date has two rows.
C5_SequentialFindOrCreate ==
  /\ \A c \in Clients : sub[c].pc # "failed"
  /\ \A c \in Clients : sub[c].pc = "create" => LogsOn(sub[c].today) = {}
  /\ \A c \in Clients :
       sub[c].pc \in {"insert", "update", "upsert"}
         => /\ LogsOn(sub[c].today) # {}
            /\ \A r \in LogsOn(sub[c].today) : r.id = sub[c].dailyLog.id
  /\ \A d \in 1..MaxDay : Cardinality(LogsOn(d)) <= 1

\* the second of two calls has just succeeded on the row the first one created
C5_Witness ==
  /\ toast = "Success!"
  /\ nextEntryId = 3
  /\ nextLogId = 2
  /\ Cardinality(LogsOn(today)) = 1
  /\ Cardinality(food_entries) = 2

\* the largest value of a field one entry can add
MaxContribution(f) ==
  CHOOSE m \in {AdjustedNutrition(t.nutrition, SetQuantity(t.quantity))[f] : t \in ValidForms} :
    \A t \in ValidForms : AdjustedNutrition(t.nutrition, SetQuantity(t.quantity))[f] <= m

Abs(n) == IF n >= 0 THEN n ELSE 0 - n

\* how far a total of a row is from the sum over the row's live entries
Drift(r, f) == Abs(r.totals[f] - SumOf(EntriesOf(r), f))

\* no row is stored twice and every entry is linked to a stored row of its user
RowStructure ==
  /\ \A e1, e2 \in food_entries : e1.id = e2.id => e1 = e2
  /\ \A r1, r2 \in daily_logs : r1.id = r2.id => r1 = r2
  /\ \A e \in food_entries :
       \E r \in daily_logs : r.id = e.daily_log_id /\ r.user_id = e.user_id

\* C6 (as stated): whenever no record and no delete is in flight, each total
\* is within one entry's contribution of the sum over the live entries, and
\* no row is duplicated or orphaned.
C6_DriftOfOneEntry ==
  (\A c \in Clients : NoneInFlight(c))
    => /\ \A r \in daily_logs : \A f \in Fields : Drift(r, f) <= MaxContribution(f)
       /\ RowStructure

\* C6 (amended): under any interleaving each total stays between zero and
\* the contributions of all the entries recorded so far, so lost updates may
\* add up to more than one entry's contribution; no row is stored twice and
\* every entry is linked to a stored row of its user.
C6_DriftBounded ==
  /\ \A r \in daily_logs : \A f \in Fields :
       /\ 0 <= r.totals[f]
       /\ r.totals[f] <= (nextEntryId - 1) * MaxContribution(f)
       /\ Drift(r, f) <= (nextEntryId - 1) * MaxContribution(f)
  /\ RowStructure

\* nothing is in flight and a total is off by more than one entry's contribution
C6_Witness ==
  /\ \A c \in Clients : NoneInFlight(c)
  /\ \E r \in daily_logs : \E f \in Fields : Drift(r, f) > MaxContribution(f)

C8_UpdateFailureDistinct ==
  \A c \in Clients :
    (sub[c].pc = "failed" /\ sub[c].failedAt = "update")
      => \A step \in {"find", "create", "insert"} : sub[c].shown # FailureToast(step)

\* C9 (as stated): once a call's entry row is stored and its update has
\* failed, no later call of the same form content inserts an entry row while
\* that row is live.
C9_RetryDoesNotReinsert ==
  \A c \in Clients :
    (sub[c].persisted # 0 /\ \E e \in food_entries : e.id = sub[c].persisted)
      => sub[c].entryId \in {0, sub[c].persisted}

\* C10: a step of handleSubmit at find, create or insert that does not reach
\* the update writes no food_entries row and no foods row and changes no total
\* (a row it creates has zero totals); when it fails it writes nothing, has
\* inserted no entry, shows the failure toast and ends the submission.
C10_EarlyFailureAborts ==
  [][\A c \in Clients :
       (sub[c].pc \in {"find", "create", "insert"} /\ sub'[c] # sub[c]
          /\ sub'[c].pc # "update")
         => /\ food_entries' = food_entries
            /\ foods' = foods
            /\ \A r \in daily_logs : r \in daily_logs'
            /\ \A r \in daily_logs' \ daily_logs : r.totals = ZeroNutrition
            /\ sub'[c].pc = "failed"
                 => /\ daily_logs' = daily_logs
                    /\ sub'[c].entryId = 0
                    /\ toast' = "Failed to add food"
                    /\ ~isSubmitting'[c]
    ]_vars

\* a call has failed at the insert of its entry: the day's row it created has
\* zero totals, and there is no entry and no catalog item
C10_Witness ==
  /\ sub["c1"].pc = "failed"
  /\ sub["c1"].failedAt = "insert"
  /\ sub["c1"].foundNone
  /\ daily_logs # {}
  /\ \A r \in daily_logs : r.totals = ZeroNutrition
  /\ food_entries = {} /\ foods = {}

\* C11: when the foods upsert fails, the call ends as a success: the Success
\* toast is shown, the submission is over, the reload is requested, and the
\* step changes no food_entries row and no daily_logs row.
C11_UpsertFailureSwallowed ==
  [][\A c \in Clients :
       (sub[c].pc = "upsert" /\ sub'[c] # sub[c] /\ failures' = failures + 1)
         => /\ toast' = "Success!"
            /\ sub'[c].pc = "idle"
            /\ ~isSubmitting'[c]
            /\ reloadPending'[c]
            /\ food_entries' = food_entries
            /\ daily_logs' = daily_logs
    ]_vars

\* the only submission ended in success although its upsert failed: the entry
\* is stored, the totals hold it, the catalog is empty
C11_Witness ==
  /\ toast = "Success!"
  /\ submits = 1
  /\ failures = 1
  /\ foods = {}
  /\ Cardinality(food_entries) = 1
  /\ Conserved

\* C12: the entry row a call inserts holds the form's quantity and, for each
\* of the four fields, the per-serving value times the quantity; the update
\* of the call adds exactly that product to each total of the day's row.
C12_QuantityScaling ==
  [][\A c \in Clients :
       /\ (sub[c].pc = "insert" /\ sub'[c].pc = "update")
            => \E e \in food_entries' \ food_entries :
                 /\ food_entries' = food_entries \cup {e}
                 /\ e.id = sub'[c].entryId
                 /\ e.quantity = sub[c].quantity
                 /\ \A f \in Fields : 10 * e[f] = sub[c].nutrition[f] * sub[c].quantity
       /\ (sub[c].pc = "update" /\ sub'[c].pc # "update")
            => \A r \in daily_logs :
                 r.id = sub[c].dailyLog.id
                   => \E r2 \in daily_logs' :
                        /\ r2.id = r.id
                        /\ \A f \in Fields :
                             10 * r2.totals[f] =
                               10 * r.totals[f] + sub[c].nutrition[f] * sub[c].quantity
    ]_vars

\* two servings of 50 kcal were recorded: the entry holds 100 kcal and so
\* do the totals
C12_Witness ==
  /\ toast = "Success!"
  /\ \E e \in food_entries :
       /\ food_entries = {e}
       /\ e.quantity = 20
       /\ e.calories = 100 /\ e.protein = 0 /\ e.carbs = 8 /\ e.fat = 4
       /\ \A r \in daily_logs :
            r.totals = [calories |-> 100, protein |-> 0, carbs |-> 8, fat |-> 4]
  /\ \E r \in foods : r.calories_per_serving = 50

\* C13: deleteFoodEntry writes each total as the dashboard's total minus the
\* value held by the entry it took from the dashboard's list (floored at
\* zero); that list is a copy of stored rows, and a stored row never changes
\* after its insert, whatever the catalog holds by then.
C13_DeleteUsesStoredValues ==
  [][/\ \A e \in food_entries' :
          (\E e0 \in food_entries : e0.id = e.id) => e \in food_entries
     /\ \A c \in Clients :
          /\ foodEntries'[c] # foodEntries[c] => foodEntries'[c] \subseteq food_entries
          /\ (del[c].pc # "delete" /\ del'[c].pc = "delete")
               => del'[c].entry \in foodEntries[c]
          /\ (del[c].pc = "update" /\ del'[c].pc = "idle")
               => \A r \in daily_logs' :
                    r.date = del[c].today
                      => \A f \in Fields :
                           r.totals[f]
                             = Max(0, del[c].dailyLog.totals[f] - del[c].entry[f])
    ]_vars

\* a delete is about to write its totals for an entry whose catalog item has
\* other per-serving values by now
C13_Witness ==
  \E c \in Clients :
    /\ del[c].pc = "update"
    /\ \E f \in Fields : Rederived(del[c].entry, f) # del[c].entry[f]
    /\ LogsOn(del[c].today) # {}

\* C14: deleteFoodEntry for an id its lookup does not find returns at once:
\* no failure is reported, no reload is requested, and no food_entries row,
\* daily_logs row or in-memory total changes.
C14_AbsentEntryIsNoOp ==
  [][\A c \in Clients :
       (del[c].pc # "absent" /\ del'[c].pc = "absent")
         => /\ toast' = "none"
            /\ food_entries' = food_entries
            /\ daily_logs' = daily_logs
            /\ foods' = foods
            /\ dailyLog' = dailyLog
            /\ foodEntries' = foodEntries
            /\ reloadPending' = reloadPending
    ]_vars

\* the handler returned at its lookup while the day's row holds totals and an
\* entry row is stored
C14_Witness ==
  /\ del["c1"].pc = "absent"
  /\ toast = "none"
  /\ food_entries # {}
  /\ \E r \in daily_logs : r.totals.calories > 0

\* C15: no step of loadTodayData writes to the store; when the day has no
\* row it leaves a zeroed aggregate and an empty list in memory and the store
\* still has no row for the day.
C15_LoadNeverWrites ==
  [][\A c \in Clients :
       load'[c] # load[c]
         => /\ daily_logs' = daily_logs
            /\ food_entries' = food_entries
            /\ foods' = foods
            /\ (load[c].pc = "log" /\ LogsOn(load[c].today) = {})
                 => /\ dailyLog'[c] = SynthLog
                    /\ foodEntries'[c] = {}
                    /\ load'[c].pc = "idle"
                    /\ {r \in daily_logs' : r.date = load[c].today} = {}
    ]_vars

\* the first load has answered before anything was recorded
C15_Witness ==
  /\ dailyLog["c1"] = SynthLog
  /\ foodEntries["c1"] = {}
  /\ load["c1"].pc = "idle"
  /\ ~reloadPending["c1"]
  /\ daily_logs = {}

\* C16: when the recognition answers, the extracted record is handed to the
\* dashboard exactly when one of its fields is above zero, with the Success
\* toast; otherwise the toast is "No nutrition data found", the dashboard
\* keeps what it had and its scanner stays open; in both cases the store is
\* left as it was.
C16_ForwardedIffPositive ==
  [][\A c \in Clients :
       (scanner[c].pc = "ocr" /\ scanner[c].outcome = "none"
          /\ scanner'[c].outcome = "text")
         => LET n == scanner'[c].nutrition
            IN /\ daily_logs' = daily_logs
               /\ food_entries' = food_entries
               /\ foods' = foods
               /\ IF \E k \in DOMAIN n : n[k].num > 0
                  THEN /\ scanner'[c].scannedNutrition = n
                       /\ toast' = "Success!"
                  ELSE /\ scanner'[c].scannedNutrition = scanner[c].scannedNutrition
                       /\ scanner'[c].showScanner = scanner[c].showScanner
                       /\ toast' = "No nutrition data found"
    ]_vars

\* a label whose every value is zero was recognised: nothing was handed on
C16_Witness ==
  /\ scanner["c1"].outcome = "text"
  /\ scanner["c1"].text = TextZeroValues
  /\ scanner["c1"].nutrition = [n \in Required |-> Zero]
  /\ scanner["c1"].scannedNutrition = NoScan
  /\ toast = "No nutrition data found"
  /\ food_entries = {}

\* a text mentions a nutrient when one of the alternatives of a pattern
\* occurs in its cleaned form
Mentions(text) ==
  LET clean == CleanText(text)
  IN \E n \in Nutrients : \E k \in DOMAIN Patterns[n].alts :
       \E p \in 1..(Len(clean) + 1) : MatchFrom(clean, p, Patterns[n].alts[k], 1) # 0

\* C17: for a recognised text that mentions no nutrient, the extracted record
\* has no field at all: the four required fields are absent too.
C17_NoMentionAllAbsent ==
  \A c \in Clients :
    (scanner[c].outcome = "text" /\ ~Mentions(scanner[c].text))
      => DOMAIN scanner[c].nutrition = {}

\* the number of the leftmost match of one alternative alone
AlternativeAlone(text, n, k) ==
  FirstMatch(CleanText(text), 1, <<Patterns[n].alts[k]>>, Patterns[n].unit)

\* C18: when a recognised text holds a match of the specific carbohydrate
\* phrase (total carbohydrate) and a match of the bare one (carbs), the
\* extracted carbs value is the one of the leftmost match of the specific
\* phrase, wherever the bare phrase stands.  (The same question for the fat
\* phrases is C19.)
C18_SpecificPhraseWins ==
  \A c \in Clients :
    (/\ scanner[c].outcome = "text"
     /\ AlternativeAlone(scanner[c].text, "carbs", 1) # NoMatch
     /\ AlternativeAlone(scanner[c].text, "carbs", Len(Patterns["carbs"].alts)) # NoMatch)
      => scanner[c].nutrition["carbs"] = AlternativeAlone(scanner[c].text, "carbs", 1)

\* C19: when a recognised text holds a saturated fat or trans fat line and a
\* total fat line, the extracted fat is the number of the total fat line.
C19_FatFromTotalFatLine ==
  \A c \in Clients :
    (/\ scanner[c].outcome = "text"
     /\ \/ Matched(CleanText(scanner[c].text), "saturatedFat") # NoMatch
        \/ Matched(CleanText(scanner[c].text), "transFat") # NoMatch
     /\ AlternativeAlone(scanner[c].text, "fat", 1) # NoMatch)
      => scanner[c].nutrition["fat"] = AlternativeAlone(scanner[c].text, "fat", 1)

\* C20: when the recognition fails, the toast is "Processing failed", the
\* call is over and the scanner is free again, no recognition is called
\* again, no record is extracted or handed to the dashboard, and the store is
\* left as it was.
C20_OcrFailureSurfaced ==
  [][\A c \in Clients :
       (scanner[c].pc = "ocr" /\ scanner[c].outcome = "none"
          /\ scanner'[c].outcome = "error")
         => /\ toast' = "Processing failed"
            /\ scanner'[c].pc = "idle"
            /\ ~scanner'[c].isProcessing
            /\ scanner'[c].calls = scanner[c].calls
            /\ scanner'[c].nutrition = scanner[c].nutrition
            /\ scanner'[c].scannedNutrition = scanner[c].scannedNutrition
            /\ scanner'[c].showScanner = scanner[c].showScanner
            /\ daily_logs' = daily_logs
            /\ food_entries' = food_entries
            /\ foods' = foods
    ]_vars

\* the first recognition failed: nothing was handed on and the scanner waits
\* for another image
C20_Witness ==
  /\ scanner["c1"].outcome = "error"
  /\ scanner["c1"].calls = 1
  /\ scanner["c1"].pc = "idle"
  /\ scanner["c1"].showScanner
  /\ scanner["c1"].scannedNutrition = NoScan
  /\ toast = "Processing failed"
  /\ food_entries = {}

\* C21: when the foods upsert of a call answers, the catalog holds for the
\* call's (user, name, brand) exactly one row, and its four per-serving
\* columns are the values of the form, not multiplied by the quantity.
C21_CatalogHoldsPerServing ==
  [][\A c \in Clients :
       (sub[c].pc = "upsert" /\ sub'[c].pc = "idle" /\ failures' = failures)
         => LET items == {r \in foods' : /\ r.user_id = User
                                         /\ r.name = sub[c].foodName
                                         /\ r.brand = BrandOrNull(sub[c].brand)}
            IN /\ Cardinality(items) = 1
               /\ \A r \in items : \A f \in Fields :
                    PerServing(r, f) = sub[c].nutrition[f]
    ]_vars

\* two servings of 50 kcal were recorded: the entry holds 100 kcal, the
\* catalog item 50
C21_Witness ==
  /\ toast = "Success!"
  /\ \E e \in food_entries : e.quantity = 20 /\ e.calories = 100
  /\ \E r \in foods :
       /\ foods = {r}
       /\ r.calories_per_serving = 50 /\ r.protein_per_serving = 0
       /\ r.carbs_per_serving = 4 /\ r.fat_per_serving = 2

C23_DeleteWritesOwnRowOnly ==
  [][\A c \in Clients :
       (del[c].pc = "update" /\ del'[c].pc = "idle")
         => \A r \in daily_logs :
              r.id # del[c].entry.daily_log_id => r \in daily_logs'
    ]_vars

\* C24: when deleteFoodEntry starts with no record and no delete in flight,
\* the totals of the dashboard's dailyLog it will subtract from are the
\* totals stored in the row of the entry.
C24_DeleteSnapshotIsStored ==
  [][\A c \in Clients :
       (NoneInFlight(c) /\ del'[c].pc = "delete")
         => \A r \in daily_logs :
              r.id = del'[c].entry.daily_log_id
                => r.totals = del'[c].dailyLog.totals
    ]_vars

\* C25: when a form is submitted with its nutrition fields as mounted while
\* the dashboard holds a scanned record, the per-serving calories, protein,
\* carbs and fat submitted are those of the scanned record.  (Every
\* submission of SpecForm leaves the nutrition fields as mounted.)
C25_UneditedFormSubmitsScan ==
  [][\A c \in Clients :
       (/\ sub[c].pc = "idle" /\ sub'[c].pc = "find"
        /\ scanner[c].scannedNutrition # NoScan)
         => \A f \in Fields :
              sub'[c].nutrition[f] * scanner[c].scannedNutrition[f].den
                = scanner[c].scannedNutrition[f].num
    ]_vars
\* ------------------------------------------------------------------------
\* one client whose session may end at any moment: records and deletes one
\* after another, a refused form resubmitted or cancelled
NextSession ==
  \/ NextSeq
  \/ SessionEnds("c1")
  \/ SubmitNoSession("c1")
  \/ NoneInFlight("c1") /\ Resubmit("c1")
  \/ CancelForm("c1")

SpecSession == Init /\ [][NextSession]_vars

\* the client awaits no answer of the store
NoRequest(c) ==
  /\ NoneInFlight(c)
  /\ load[c].pc = "idle"

\* C26: when there is no authenticated session, recordEntry, deleteEntry and
\* loadDay perform no read and no write on the aggregate, entry or catalog
\* tables and leave the store unchanged: a client without a session that
\* awaits no answer of the store sends no request, whatever is clicked, and
\* the store changes only where another client has a request in flight
C26_NoSessionNoStoreAccess ==
  [][\A c \in Clients :
       (~session[c] /\ NoRequest(c))
         => /\ NoRequest(c)'
            /\ \/ store' = store
               \/ \E d \in Clients \ {c} : ~NoRequest(d)
    ]_vars

\* the session ended with entries stored and listed, and a submission was
\* answered with the request to sign in
C26_Witness ==
  /\ ~session["c1"]
  /\ sub["c1"].pc = "failed"
  /\ sub["c1"].failedAt = "session"
  /\ toast = "Please sign in to add foods"
  /\ food_entries # {}
  /\ foodEntries["c1"] # {}
  /\ NoRequest("c1")

\* ------------------------------------------------------------------------
\* the busy flags

\* the texts the recognition answers where only its returning matters: one
\* with nutrition data and one without
LiveTexts == {TextLabel, TextGarbage}

\* an awaited call of handleSubmit returns or fails
SubmitAnswers(c) ==
  \/ SubmitNoSession(c)
  \/ SubmitFind(c)
  \/ SubmitCreate(c)
  \/ SubmitInsert(c)
  \/ SubmitUpdate(c)
  \/ SubmitUpsert(c)
  \/ SubmitFindError(c)
  \/ SubmitCreateError(c)
  \/ SubmitInsertError(c)
  \/ SubmitUpdateError(c)
  \/ SubmitUpsertError(c)

\* the awaited recognition of processImage returns or fails
OcrReturns(c) ==
  \/ \E text \in LiveTexts : OcrAnswers(c, text)
  \/ OcrFails(c)

\* one client's form and scanner: submissions with and without a session,
\* requests that fail, images recognised or not, panels opened and closed
NextLive ==
  \/ submits < MaxFaultSubmits /\ \E typed \in ValidForms : FillAndSubmit("c1", typed)
  \/ submits < MaxFaultSubmits /\ Resubmit("c1")
  \/ CancelForm("c1")
  \/ SessionEnds("c1")
  \/ OpenScanner("c1")
  \/ CloseScanner("c1")
  \/ SelectImage("c1")
  \/ SubmitAnswers("c1")
  \/ OcrReturns("c1")

\* every awaited call returns or fails: no call stays pending for ever
SpecLive ==
  /\ Init
  /\ [][NextLive]_vars
  /\ WF_vars(SubmitAnswers("c1"))
  /\ WF_vars(OcrReturns("c1"))

\* a handleSubmit of the client's form has started and not returned
SubmitRunning(c) ==
  sub[c].pc \in {"session", "find", "create", "insert", "update", "upsert"}

\* C27: every submission and every image processing that starts eventually
\* clears its busy flag (isSubmitting, isProcessing) on every path (success,
\* store or OCR failure, missing session) provided each awaited call returns
\* or fails; the flag isSubmitting is set exactly while a handleSubmit runs,
\* and while it is set the same form starts no second recordEntry
C27_BusyFlagsCleared ==
  /\ \A c \in Clients : isSubmitting[c] ~> ~isSubmitting[c]
  /\ \A c \in Clients : scanner[c].isProcessing ~> ~scanner[c].isProcessing
  /\ [](\A c \in Clients : isSubmitting[c] <=> SubmitRunning(c))
  /\ [][\A c \in Clients :
          isSubmitting[c]
            => /\ submits' = submits
               /\ ~(sub'[c].pc \in {"session", "find"} /\ sub'[c].pc # sub[c].pc)
       ]_vars

\* a request to the store has failed, a later submission found no session,
\* a recognition has failed, and no flag is set
C27_Witness ==
  /\ failures > 0
  /\ sub["c1"].failedAt = "session"
  /\ ~isSubmitting["c1"]
  /\ scanner["c1"].outcome = "error"
  /\ scanner["c1"].showScanner
  /\ ~scanner["c1"].isProcessing

====
